---- MODULE Spec2Model ----
(***************************************************************************)
(* ghetzel/shmtool, package shm: a Segment (Id, Size, offset) over a       *)
(* System V shared memory segment.  The kernel side (shmget, shmat, shmdt, *)
(* shmctl) is modelled as a table of segments and a table of attachments;  *)
(* the C wrappers of shm.c and the methods of Segment are translated on    *)
(* top of it.                                                              *)
(***************************************************************************)
EXTENDS Integers, Sequences, FiniteSets, TLC

VARIABLES kseg, maps, segs, last, pc

vars == <<kseg, maps, segs, last, pc>>

----------------------------------------------------------------------------
(* Bounds of the model *)

\* largest size a caller asks Create for
MaxSize == 2
\* buffers are one longer than the largest segment, cursors reach past the end
MaxBuf == MaxSize + 1
MaxPos == MaxSize + 1

\* kernel ids, the Segment values and the attach addresses of the process
Ids == DOMAIN kseg
Handles == DOMAIN segs
Addrs == DOMAIN maps
\* bytes are only copied, never inspected: a fresh segment holds 0, callers write 0 or 1
Byte == {0, 1}

\* all byte strings of length n, and of length at most n
BytesOfLen(n) == [1..n -> Byte]
Buffers == UNION {BytesOfLen(n) : n \in 0..MaxBuf}

Min(a, b) == IF a < b THEN a ELSE b

----------------------------------------------------------------------------
(* Program constants *)

IpcCreate == 512
IpcExclusive == 1024
\* 0600, owner read and write
DefaultPerm == 384
\* 0400, the owner-read bit
OwnerRead == 256
\* the Id a Segment literal has when no kernel segment backs it
NoId == 0

\* whence values of Seek
SeekStart == 0
SeekCurrent == 1
SeekEnd == 2

\* conversion of a Go int / int64 to C.int (two's complement wrap).  The C int
\* has 32 bits; the model scales the width down so that the wrap is computable
\* and reachable with small values, Go's int64 being unbounded next to it.
CIntBits == 12
CInt(x) == ((x + 2^(CIntBits - 1)) % 2^CIntBits) - 2^(CIntBits - 1)

----------------------------------------------------------------------------
(* The kernel: segments and attachments *)

NoKseg == [exists |-> FALSE, size |-> 0, mem |-> <<>>, rmid |-> FALSE, perm |-> 0]

\* number of attachments of segment id (shm_nattch)
Nattch(id) == Cardinality({a \in Addrs : maps[a] = id})

Exists(id) == id \in Ids /\ kseg[id].exists

\* the lowest id never handed out, 0 when none is left
FreeIds == {i \in Ids : ~kseg[i].exists /\ kseg[i].size = 0}
NextId == IF FreeIds = {} THEN 0 ELSE CHOOSE i \in FreeIds : \A j \in FreeIds : i <= j

\* a removed id keeps a tombstone (size -1) so that it is never handed out again
Tombstone == [NoKseg EXCEPT !.size = -1]

\* the mode of the segment lets its owner read it
Readable(seg) == (seg.perm \div OwnerRead) % 2 = 1

\* a stat that takes every id of the table for an existing segment
CanStatUnchecked(id) == id \in Ids

\* shmctl(IPC_STAT) needs the segment and read permission
CanStat(id) == Exists(id) /\ Readable(kseg[id])

\* an attach that works only where the process holds an attachment of its own
CanAttachWhenAttached(id) == Exists(id) /\ Readable(kseg[id]) /\ Nattch(id) > 0

\* shmat(id, NULL, 0) needs the segment and read/write permission
CanAttach(id) == Exists(id) /\ Readable(kseg[id])

\* the bytes [offset, offset+len) lie inside the mapping of segment id
InBounds(id, len, offset) ==
    /\ offset >= 0
    /\ len >= 0
    /\ offset + len <= kseg[id].size

\* a shmget that hands out a segment for any size
sysv_shm_open_okAnySize(size, flags, perm, grant) == grant /\ NextId # 0

\* int sysv_shm_open(size_t size, int flags, int perm): the size shmget sees
\* and whether it creates a segment; shmget refuses a new segment of size 0,
\* and a negative int converted to size_t exceeds SHMMAX
sysv_shm_open_ok(size, flags, perm, grant) ==
    /\ grant
    /\ CInt(size) > 0
    /\ NextId # 0

sysv_shm_open_perm(size, flags, perm) ==
    IF CInt(size) # 0
    THEN (IF CInt(perm) = 0 THEN DefaultPerm ELSE CInt(perm))
    ELSE 0

\* size_t sysv_shm_get_size(int shm_id): shm_segsz
sysv_shm_get_size(id) == kseg[id].size

\* a memcpy that forgets the offset and copies to the start of the mapping
MemAfterWriteAtStart(mem, p, len, offset) ==
    [i \in 1..Len(mem) |-> IF i <= len /\ i \in 1..Len(p) THEN p[i] ELSE mem[i]]

\* a memcpy that clears the segment behind the bytes it copied
MemAfterWriteClearsRest(mem, p, len, offset) ==
    [i \in 1..Len(mem) |->
        IF i - 1 >= offset /\ i - 1 < offset + len /\ i - offset \in 1..Len(p)
        THEN p[i - offset]
        ELSE IF i - 1 >= offset + len THEN 0 ELSE mem[i]]

\* memcpy(addr+offset, input, len) on the mapping of id
MemAfterWrite(mem, p, len, offset) ==
    [i \in 1..Len(mem) |->
        IF i - 1 >= offset /\ i - 1 < offset + len /\ i - offset \in 1..Len(p)
        THEN p[i - offset]
        ELSE mem[i]]

\* a memcpy that forgets the offset and copies from the start of the mapping
MemReadFromStart(mem, len, offset) == [i \in 1..len |-> mem[i]]

\* memcpy(output, addr+offset, len) on the mapping of id, in bounds
MemRead(mem, len, offset) == [i \in 1..len |-> mem[offset + i]]

\* a removal that takes the segment away under the attachments it has
KsegAfterRmidAtOnce(id) == [kseg EXCEPT ![id] = Tombstone]

\* int sysv_shm_close(int shm_id): shmctl(IPC_RMID); the segment goes at once
\* when nobody is attached, otherwise it is marked and goes with the last detach
KsegAfterRmid(id) ==
    IF Nattch(id) = 0
    THEN [kseg EXCEPT ![id] = Tombstone]
    ELSE [kseg EXCEPT ![id].rmid = TRUE]

\* a detach that takes the segment with the last attachment, marked or not
KsegAfterDetachReclaims(id) ==
    IF Nattch(id) = 1
    THEN [kseg EXCEPT ![id] = Tombstone]
    ELSE kseg

\* shmdt(addr) of an address attached to id
KsegAfterDetach(id) ==
    IF kseg[id].rmid /\ Nattch(id) = 1
    THEN [kseg EXCEPT ![id] = Tombstone]
    ELSE kseg

\* shmat(id, NULL, 0): the kernel maps the segment at an address the process
\* does not use yet
FreshAddr(m) == Cardinality(DOMAIN m) + 1
MapsAfterShmat(m, id) ==
    [a \in DOMAIN m \cup {FreshAddr(m)} |-> IF a \in DOMAIN m THEN m[a] ELSE id]

\* a detach that leaves the mapping in place
MapsAfterShmdtLeaks(m, addr) == m

\* shmdt(addr): the mapping at addr is gone
MapsAfterShmdt(m, addr) == [a \in DOMAIN m \ {addr} |-> m[a]]

\* the attachments after a sysv_shm_read or sysv_shm_write whose attach
\* succeeded: sysv_shm_attach, memcpy, sysv_shm_detach of the same address
MapsAfterIo(id) == MapsAfterShmdt(MapsAfterShmat(maps, id), FreshAddr(maps))

----------------------------------------------------------------------------
(* Segment values and the record of the last call *)

NoSegment == [alloc |-> FALSE, Id |-> 0, Size |-> 0, offset |-> 0]

NoCall == [op |-> "none", h |-> 0, outcome |-> "ok", n |-> 0, data |-> <<>>,
           pre |-> 0, len |-> 0, arg |-> 0, mode |-> 0,
           kcall |-> "none", kid |-> 0, klen |-> 0, koff |-> 0]

\* the process runs until a fault in C code kills it
Running == last.outcome # "fault"

\* the call c got through sysv_shm_read or sysv_shm_write: the attach succeeded
\* and the wrapper returned
IoDone(c) == c.kcall # "none" /\ c.outcome \in {"ok", "eof"}

Init ==
    /\ kseg = [i \in {1} |-> NoKseg]
    /\ maps = [a \in {1} |-> 0]
    /\ segs = [h \in {1} |-> NoSegment]
    /\ last = NoCall
    /\ pc = [at |-> "free"]
   

Call(op, h) == [NoCall EXCEPT !.op = op, !.h = h, !.pre = segs[h].offset]

----------------------------------------------------------------------------
(* Lifecycle: OpenSegment, Create, Open, DestroySegment, Destroy *)

\* the kernel table after shmget made segment id of the given size and mode
KsegAfterShmget(id, size, perm) ==
    [kseg EXCEPT ![id] = [exists |-> TRUE, size |-> size,
                          mem |-> [i \in 1..size |-> 0],
                          rmid |-> FALSE, perm |-> perm]]

OpenSegment(h, size, flags, perms, grant) ==
    /\ Running
    /\ ~segs[h].alloc
    /\ LET c == [NoCall EXCEPT !.op = "OpenSegment", !.h = h, !.arg = size, !.mode = perms]
           shmid == NextId
           perm == sysv_shm_open_perm(size, flags, perms)
           k2 == KsegAfterShmget(shmid, CInt(size), perm)
       IN IF sysv_shm_open_ok(size, flags, perms, grant)
          THEN /\ kseg' = k2
               /\ IF Readable(k2[shmid])
                  THEN /\ segs' = [segs EXCEPT ![h] =
                                     [alloc |-> TRUE, Id |-> shmid,
                                      Size |-> k2[shmid].size, offset |-> 0]]
                       /\ last' = [c EXCEPT !.outcome = "ok", !.kid = shmid]
                  ELSE /\ segs' = segs
                       /\ last' = [c EXCEPT !.outcome = "err", !.kid = shmid]
          ELSE /\ kseg' = kseg
               /\ segs' = segs
               /\ last' = [c EXCEPT !.outcome = "err"]
    /\ UNCHANGED <<maps>>

Create(h, size, grant) ==
    OpenSegment(h, size, IpcCreate + IpcExclusive, DefaultPerm, grant)

\* an Open that learns no size
OpenSizeZero(h, id) ==
    /\ Running
    /\ ~segs[h].alloc
    /\ segs' = [segs EXCEPT ![h] = [alloc |-> TRUE, Id |-> id, Size |-> 0, offset |-> 0]]
    /\ last' = [NoCall EXCEPT !.op = "Open", !.h = h, !.arg = id,
                              !.outcome = "ok", !.kid = id]
    /\ UNCHANGED <<kseg, maps>>

Open(h, id) ==
    /\ Running
    /\ ~segs[h].alloc
    /\ LET c == [NoCall EXCEPT !.op = "Open", !.h = h, !.arg = id]
       IN IF CanStat(CInt(id))
          THEN /\ segs' = [segs EXCEPT ![h] =
                             [alloc |-> TRUE, Id |-> id,
                              Size |-> sysv_shm_get_size(CInt(id)), offset |-> 0]]
               /\ last' = [c EXCEPT !.outcome = "ok", !.kid = id]
          ELSE /\ segs' = segs
               /\ last' = [c EXCEPT !.outcome = "err"]
    /\ UNCHANGED <<kseg, maps>>

\* the calls of DestroySegment on the kernel and on the record of the call
DestroySegment(id, c) ==
    IF Exists(CInt(id))
    THEN /\ kseg' = KsegAfterRmid(CInt(id))
         /\ last' = [c EXCEPT !.outcome = "ok", !.kid = id]
    ELSE /\ kseg' = kseg
         /\ last' = [c EXCEPT !.outcome = "err", !.kid = id]

Destroy(h) ==
    /\ Running
    /\ segs[h].alloc
    /\ DestroySegment(segs[h].Id, Call("Destroy", h))
    /\ UNCHANGED <<maps, segs>>

\* the Segment value goes out of scope; nothing is released with it
Drop(h) ==
    /\ Running
    /\ segs[h].alloc
    /\ segs' = [segs EXCEPT ![h] = NoSegment]
    /\ last' = Call("Drop", h)
    /\ UNCHANGED <<kseg, maps>>

----------------------------------------------------------------------------
(* Attach and Detach *)

Attach(h, a) ==
    /\ Running
    /\ segs[h].alloc
    /\ maps[a] = 0
    /\ IF CanAttach(CInt(segs[h].Id))
       THEN /\ maps' = [maps EXCEPT ![a] = CInt(segs[h].Id)]
            /\ last' = [Call("Attach", h) EXCEPT !.outcome = "ok", !.arg = a]
       ELSE /\ maps' = maps
            /\ last' = [Call("Attach", h) EXCEPT !.outcome = "err"]
    /\ UNCHANGED <<kseg, segs>>

Detach(h, a) ==
    /\ Running
    /\ segs[h].alloc
    /\ IF maps[a] # 0
       THEN /\ maps' = [maps EXCEPT ![a] = 0]
            /\ kseg' = KsegAfterDetach(maps[a])
            /\ last' = [Call("Detach", h) EXCEPT !.outcome = "ok", !.arg = a]
       ELSE /\ maps' = maps
            /\ kseg' = kseg
            /\ last' = [Call("Detach", h) EXCEPT !.outcome = "err", !.arg = a]
    /\ UNCHANGED <<segs>>

----------------------------------------------------------------------------
(* The C wrappers sysv_shm_read and sysv_shm_write *)

\* what memcpy(output, addr+offset, len) can leave in output: the bytes of the
\* segment when the range is inside the mapping; reading outside the mapping is
\* undefined, the bytes outside it are then arbitrary (or the process faults)
ReadOutcomes(id, len, offset) ==
    IF InBounds(id, len, offset)
    THEN {[fault |-> FALSE, data |-> MemRead(kseg[id].mem, len, offset)]}
    ELSE {[fault |-> TRUE, data |-> <<>>]} \cup
         (IF len \in 0..MaxBuf
          THEN {[fault |-> FALSE, data |-> d] : d \in
                   {b \in BytesOfLen(len) :
                       \A i \in 1..len :
                          (offset + i) \in 1..kseg[id].size => b[i] = kseg[id].mem[offset + i]}}
          ELSE {})

\* what memcpy(addr+offset, input, len) can leave in the segment: writing outside
\* the mapping is undefined, it faults or lands outside the segment's bytes
WriteOutcomes(id, p, len, offset) ==
    IF InBounds(id, len, offset)
    THEN {[fault |-> FALSE, mem |-> MemAfterWrite(kseg[id].mem, p, len, offset)]}
    ELSE {[fault |-> TRUE, mem |-> kseg[id].mem]} \cup
         (IF len >= 0
          THEN {[fault |-> FALSE, mem |-> MemAfterWrite(kseg[id].mem, p, len, offset)]}
          ELSE {})

----------------------------------------------------------------------------
(* Bounded Read and Write *)

\* an end test that lets a cursor equal to the size through
AtEndStrict(self) == self.offset > self.Size

\* the offset runs past the segment size: the end is reached
AtEnd(self) == self.offset >= self.Size

\* a clamp that caps by Size only and forgets what the cursor leaves
ClampLengthNoRemain(plen, Size, offset) == IF plen > Size THEN Size ELSE plen

\* no clamp at all: the length of the buffer goes to the kernel as it is
ClampLengthBufferOnly(plen, Size, offset) == plen

\* the length Read and Write transfer: len(p), capped by Size, then by Size - offset
ClampLength(plen, Size, offset) ==
    LET l1 == IF plen > Size THEN Size ELSE plen
    IN IF l1 + offset > Size THEN Size - offset ELSE l1

\* a Read that takes an empty buffer for a transfer of zero bytes that succeeded
ReadEmptyOk(h, plen) ==
    /\ Running
    /\ segs[h].alloc
    /\ last' = [Call("Read", h) EXCEPT !.len = plen,
                    !.outcome = IF plen = 0 THEN "ok" ELSE "err"]
    /\ UNCHANGED <<kseg, maps, segs>>

\* a Read that looks at the end of the stream first and at the Id never
ReadEndFirst(h, plen) ==
    /\ Running
    /\ segs[h].alloc
    /\ last' = [Call("Read", h) EXCEPT !.len = plen,
                    !.outcome = IF AtEnd(segs[h]) THEN "eof" ELSE "err"]
    /\ UNCHANGED <<kseg, maps, segs>>

Read(h, plen) ==
    /\ Running
    /\ segs[h].alloc
    /\ LET self == segs[h]
           c == [Call("Read", h) EXCEPT !.len = plen]
           length == ClampLength(plen, self.Size, self.offset)
           kid == CInt(self.Id)
           klen == CInt(length)
           koff == CInt(self.offset)
           k == [c EXCEPT !.kcall = "read", !.kid = kid, !.klen = klen, !.koff = koff]
       IN IF self.Id = NoId
          THEN /\ last' = [c EXCEPT !.outcome = "err"]
               /\ segs' = segs
          ELSE IF AtEnd(self)
          THEN /\ last' = [c EXCEPT !.outcome = "eof"]
               /\ segs' = segs
          ELSE IF ~CanAttach(kid)
          THEN /\ last' = [k EXCEPT !.outcome = "err"]
               /\ segs' = segs
          ELSE \E r \in ReadOutcomes(kid, klen, koff) :
                 IF r.fault
                 THEN /\ last' = [k EXCEPT !.outcome = "fault"]
                      /\ segs' = segs
                 ELSE LET v == Min(plen, Len(r.data))
                      IN IF v > 0
                         THEN /\ segs' = [segs EXCEPT ![h].offset = self.offset + v]
                              /\ last' = [k EXCEPT !.outcome = "ok", !.n = v,
                                                   !.data = SubSeq(r.data, 1, v)]
                         ELSE /\ segs' = segs
                              /\ last' = [k EXCEPT !.outcome = "eof", !.n = v]
    /\ maps' = IF IoDone(last') THEN MapsAfterIo(last'.kid) ELSE maps
    /\ UNCHANGED <<kseg>>

\* a Write that moves the cursor before it knows what the kernel answered
WriteAdvancesFirst(h, p) ==
    /\ Running
    /\ segs[h].alloc
    /\ segs' = [segs EXCEPT ![h].offset =
                   segs[h].offset + ClampLength(Len(p), segs[h].Size, segs[h].offset)]
    /\ last' = [Call("Write", h) EXCEPT !.len = Len(p), !.data = p,
                    !.kcall = "write", !.kid = CInt(segs[h].Id), !.outcome = "err"]
    /\ UNCHANGED <<kseg, maps>>

Write(h, p) ==
    /\ Running
    /\ segs[h].alloc
    /\ LET self == segs[h]
           c == [Call("Write", h) EXCEPT !.len = Len(p), !.data = p]
           length == ClampLength(Len(p), self.Size, self.offset)
           kid == CInt(self.Id)
           klen == CInt(length)
           koff == CInt(self.offset)
           k == [c EXCEPT !.kcall = "write", !.kid = kid, !.klen = klen, !.koff = koff]
       IN IF AtEnd(self)
          THEN /\ last' = [c EXCEPT !.outcome = "eof"]
               /\ segs' = segs
               /\ kseg' = kseg
          ELSE IF Len(p) = 0
          THEN \* &p[0] of an empty slice: index out of range
               /\ last' = [c EXCEPT !.outcome = "panic"]
               /\ segs' = segs
               /\ kseg' = kseg
          ELSE IF ~CanAttach(kid)
          THEN /\ last' = [k EXCEPT !.outcome = "err"]
               /\ segs' = segs
               /\ kseg' = kseg
          ELSE \E w \in WriteOutcomes(kid, p, klen, koff) :
                 IF w.fault
                 THEN /\ last' = [k EXCEPT !.outcome = "fault"]
                      /\ segs' = segs
                      /\ kseg' = kseg
                 ELSE /\ kseg' = [kseg EXCEPT ![kid].mem = w.mem]
                      /\ segs' = [segs EXCEPT ![h].offset = self.offset + length]
                      /\ last' = [k EXCEPT !.outcome = "ok", !.n = length]
    /\ maps' = IF IoDone(last') THEN MapsAfterIo(last'.kid) ELSE maps

----------------------------------------------------------------------------
(* Reset, Seek, Position *)

\* a Reset that leaves the cursor where it is
ResetKeepsCursor(h) ==
    /\ Running
    /\ segs[h].alloc
    /\ last' = Call("Reset", h)
    /\ UNCHANGED <<kseg, maps, segs>>

Reset(h) ==
    /\ Running
    /\ segs[h].alloc
    /\ segs' = [segs EXCEPT ![h].offset = 0]
    /\ last' = Call("Reset", h)
    /\ UNCHANGED <<kseg, maps>>

\* a Seek that moves a negative target to 0 instead of refusing it
SeekTargetClamped(self, offset, whence) ==
    LET t == CASE whence = SeekCurrent -> self.offset + offset
               [] whence = SeekEnd -> self.Size - offset
               [] OTHER -> offset
    IN IF t < 0 THEN 0 ELSE t

\* a Seek that measures the end-relative offset forwards from the end
SeekTargetEndForward(self, offset, whence) ==
    CASE whence = SeekCurrent -> self.offset + offset
      [] whence = SeekEnd -> self.Size + offset
      [] OTHER -> offset

\* a Seek that takes the relative offset for an absolute one
SeekTargetRelativeAsAbsolute(self, offset, whence) ==
    CASE whence = SeekEnd -> self.Size - offset
      [] OTHER -> offset

\* the cursor Seek(offset, whence) computes
SeekTarget(self, offset, whence) ==
    CASE whence = SeekCurrent -> self.offset + offset
      [] whence = SeekEnd -> self.Size - offset
      [] OTHER -> offset

\* a Seek that stores the position it computed without looking at its sign
SeekUnchecked(h, offset, whence) ==
    /\ Running
    /\ segs[h].alloc
    /\ LET t == SeekTarget(segs[h], offset, whence)
       IN /\ t <= MaxPos
          /\ segs' = [segs EXCEPT ![h].offset = t]
          /\ last' = [Call("Seek", h) EXCEPT !.arg = offset, !.mode = whence, !.n = t]
    /\ UNCHANGED <<kseg, maps>>

Seek(h, offset, whence) ==
    /\ Running
    /\ segs[h].alloc
    /\ LET t == SeekTarget(segs[h], offset, whence)
           c == [Call("Seek", h) EXCEPT !.arg = offset, !.mode = whence]
       IN /\ t <= MaxPos
          /\ IF t < 0
             THEN /\ segs' = segs
                  /\ last' = [c EXCEPT !.outcome = "err"]
             ELSE /\ segs' = [segs EXCEPT ![h].offset = t]
                  /\ last' = [c EXCEPT !.outcome = "ok", !.n = t]
    /\ UNCHANGED <<kseg, maps>>

Position(h) ==
    /\ Running
    /\ segs[h].alloc
    /\ last' = [Call("Position", h) EXCEPT !.n = segs[h].offset]
    /\ UNCHANGED <<kseg, maps, segs>>

----------------------------------------------------------------------------
(* ReadChunk: a read at an absolute offset that leaves the cursor alone *)

\* a ReadChunk that reads through the cursor and leaves it behind the chunk
ReadChunkAdvances(h, length, start) ==
    /\ Running
    /\ segs[h].alloc
    /\ LET len2 == IF length < 0 THEN segs[h].Size ELSE length
       IN /\ segs' = [segs EXCEPT ![h].offset = start + len2]
          /\ last' = [Call("ReadChunk", h) EXCEPT !.len = length, !.arg = start,
                                                  !.outcome = "err"]
    /\ UNCHANGED <<kseg, maps>>

ReadChunk(h, length, start) ==
    /\ Running
    /\ segs[h].alloc
    /\ LET self == segs[h]
           len2 == IF length < 0 THEN self.Size ELSE length
           kid == CInt(self.Id)
           klen == CInt(len2)
           koff == CInt(start)
           k == [Call("ReadChunk", h) EXCEPT !.len = length, !.arg = start,
                    !.kcall = "read", !.kid = kid, !.klen = klen, !.koff = koff]
       IN IF ~CanAttach(kid)
          THEN last' = [k EXCEPT !.outcome = "err"]
          ELSE \E r \in ReadOutcomes(kid, klen, koff) :
                 IF r.fault
                 THEN last' = [k EXCEPT !.outcome = "fault"]
                 ELSE last' = [k EXCEPT !.outcome = "ok", !.n = Len(r.data),
                                        !.data = r.data]
    /\ maps' = IF IoDone(last') THEN MapsAfterIo(last'.kid) ELSE maps
    /\ UNCHANGED <<kseg, segs>>

----------------------------------------------------------------------------
(* The calls a single process makes, one at a time *)

Sizes == -1..MaxSize
Perms == {0, DefaultPerm, DefaultPerm - OwnerRead}
Offsets == (0 - MaxPos)..MaxPos
Whences == {SeekStart, SeekCurrent, SeekEnd}

Next ==
    \/ \E h \in Handles, size \in Sizes, grant \in BOOLEAN :
          Create(h, size, grant) /\ UNCHANGED pc
    \/ \E h \in Handles, id \in {NoId} \cup Ids : Open(h, id) /\ UNCHANGED pc
    \/ \E h \in Handles : Destroy(h) /\ UNCHANGED pc
    \/ \E h \in Handles : Drop(h) /\ UNCHANGED pc
    \/ \E h \in Handles, a \in Addrs : Attach(h, a) /\ UNCHANGED pc
    \/ \E h \in Handles, a \in Addrs : Detach(h, a) /\ UNCHANGED pc
    \/ \E h \in Handles, plen \in 0..MaxBuf : Read(h, plen) /\ UNCHANGED pc
    \/ \E h \in Handles, p \in Buffers : Write(h, p) /\ UNCHANGED pc
    \/ \E h \in Handles : Reset(h) /\ UNCHANGED pc
    \/ \E h \in Handles, offset \in Offsets, whence \in Whences :
          Seek(h, offset, whence) /\ UNCHANGED pc
    \/ \E h \in Handles : Position(h) /\ UNCHANGED pc
    \/ \E h \in Handles, length \in -1..MaxBuf, start \in -1..MaxPos :
          ReadChunk(h, length, start) /\ UNCHANGED pc

Spec == Init /\ [][Next]_vars

----------------------------------------------------------------------------
(* Properties of the stream, checked under Spec *)

\* the Segment value the last call was made on
LastSeg == segs[last.h]
LastOnSegment == last.h \in Handles /\ segs[last.h].alloc
\* the kernel segment behind it is there (not removed)
LastLive == LastOnSegment /\ LastSeg.Id # NoId /\ Exists(LastSeg.Id)
\* the bytes [from, from+n) of the kernel segment behind the last call's Segment
LastBytes(from, n) == [i \in 1..n |-> kseg[LastSeg.Id].mem[from + i]]

\* every raw read or write Read and Write hand to the kernel lies inside the segment
RawCallInBounds ==
    (last.op \in {"Read", "Write"} /\ last.kcall # "none") =>
        /\ last.koff >= 0
        /\ last.klen >= 0
        /\ last.koff + last.klen <= LastSeg.Size
        /\ Exists(last.kid) => last.koff + last.klen <= kseg[last.kid].size

C3_ReadResult ==
    (/\ last.op = "Read"
     /\ LastLive
     /\ 0 <= last.pre /\ last.pre < LastSeg.Size
     /\ last.len > 0)
    => /\ last.outcome = "ok"
       /\ last.n = Min(last.len, LastSeg.Size - last.pre)
       /\ last.data = LastBytes(last.pre, last.n)
       /\ LastSeg.offset = last.pre + last.n

\* a Read from the middle of a segment holding a written byte, cut short by the end
C3_Witness ==
    /\ last.op = "Read"
    /\ LastLive
    /\ last.pre > 0
    /\ last.len > LastSeg.Size - last.pre
    /\ last.n = LastSeg.Size - last.pre
    /\ \E i \in 1..last.n : last.data[i] = 1

\* C4: on a live segment with 0 <= cursor < size and a non-empty buffer, Write
\* returns without error n = min(len(buffer), size - cursor), the bytes
\* [cursor, cursor+n) of the segment are buffer[0:n), and the cursor advances by
\* n; a buffer of exactly size bytes at cursor 0 reports n = size.
C4_WriteResult ==
    (/\ last.op = "Write"
     /\ LastLive
     /\ 0 <= last.pre /\ last.pre < LastSeg.Size
     /\ last.len > 0)
    => /\ last.outcome = "ok"
       /\ last.n = Min(last.len, LastSeg.Size - last.pre)
       /\ LastBytes(last.pre, last.n) = SubSeq(last.data, 1, last.n)
       /\ LastSeg.offset = last.pre + last.n
       /\ (last.pre = 0 /\ last.len = LastSeg.Size) => last.n = LastSeg.Size

\* a Write of exactly size bytes at cursor 0 that filled the segment
C4_Witness ==
    /\ last.op = "Write"
    /\ LastLive
    /\ last.pre = 0
    /\ last.len = LastSeg.Size
    /\ LastSeg.Size > 1
    /\ last.n = LastSeg.Size
    /\ kseg[LastSeg.Id].mem = last.data
    /\ \E i \in 1..last.n : last.data[i] = 1

\* the position the last Seek asked for, from its arguments
AskedPosition ==
    CASE last.mode = SeekCurrent -> last.pre + last.arg
      [] last.mode = SeekEnd -> LastSeg.Size - last.arg
      [] OTHER -> last.arg

\* a Seek to the size or beyond succeeded, and a Read or Write that started with
\* cursor >= size reported end-of-stream without touching the kernel or the cursor
C5_State ==
    /\ (last.op = "Seek" /\ AskedPosition >= LastSeg.Size) =>
          /\ last.outcome = "ok"
          /\ LastSeg.offset = AskedPosition
    /\ (last.op \in {"Read", "Write"} /\ last.pre >= LastSeg.Size) =>
          /\ last.outcome = "eof"
          /\ last.n = 0
          /\ last.kcall = "none"
          /\ LastSeg.offset = last.pre

\* a Read or Write that starts with cursor >= size changes no byte of any segment
C5_Step ==
    (\E h \in Handles :
        /\ segs[h].alloc
        /\ segs[h].offset >= segs[h].Size
        /\ last'.op \in {"Read", "Write"}
        /\ last'.h = h)
    => kseg' = kseg

\* C5: Seek to a position equal to size or beyond succeeds, and while
\* cursor >= size every Read and Write reports end-of-stream with zero bytes,
\* issues no kernel read or write, changes no segment byte and leaves the cursor.
C5_EndOfStream == []C5_State /\ [][C5_Step]_vars

\* a Write of a non-empty buffer after a Seek beyond the end of a live segment
C5_Witness ==
    /\ last.op = "Write"
    /\ LastLive
    /\ last.len > 0
    /\ last.pre > LastSeg.Size
    /\ last.outcome = "eof"

C10_Reset ==
    /\ [][\A h \in Handles :
            (last'.op = "Reset" /\ last'.h = h) =>
               /\ segs[h].alloc
               /\ segs' = [segs EXCEPT ![h].offset = 0]
               /\ kseg' = kseg
               /\ maps' = maps
               /\ last'.pre = segs[h].offset]_vars
    /\ [][(last.op = "Reset" /\ last'.op = "Reset" /\ last'.h = last.h)
            => UNCHANGED <<kseg, maps, segs>>]_vars

\* a Reset from a cursor beyond the size on a Segment whose kernel segment is gone
C10_Witness ==
    /\ last.op = "Reset"
    /\ last.pre > LastSeg.Size
    /\ LastSeg.offset = 0
    /\ ~Exists(LastSeg.Id)

----------------------------------------------------------------------------
(* The round trip of the tests: Create, Write at cursor 0, Reset, Read back *)
(* (writeFullSegment and TestWriteFullReadFull), repeated on the segment    *)

InitRoundTrip ==
    /\ kseg = [i \in {1} |-> NoKseg]
    /\ maps = [a \in {1} |-> 0]
    /\ segs = [h \in {1} |-> NoSegment]
    /\ last = NoCall
    /\ pc = [at |-> "create", input |-> <<>>]

RoundTripCreate ==
    /\ pc.at = "create"
    /\ \E h \in Handles, size \in 1..MaxBuf : Create(h, size, TRUE)
    /\ pc' = [pc EXCEPT !.at = IF last'.outcome = "ok" THEN "write" ELSE "failed"]

RoundTripWrite ==
    /\ pc.at = "write"
    /\ \E h \in Handles :
         \E n \in 0..segs[h].Size :
           \E p \in BytesOfLen(n) :
              /\ Write(h, p)
              /\ pc' = [at |-> IF last'.outcome = "ok" /\ last'.n = n
                               THEN "reset" ELSE "failed",
                        input |-> p]

RoundTripReset ==
    /\ pc.at = "reset"
    /\ \E h \in Handles : Reset(h)
    /\ pc' = [pc EXCEPT !.at = "read"]

RoundTripRead ==
    /\ pc.at = "read"
    /\ \E h \in Handles : Read(h, Len(pc.input))
    /\ pc' = [pc EXCEPT !.at = "done"]

RoundTripAgain ==
    /\ pc.at = "done"
    /\ \E h \in Handles : Reset(h)
    /\ pc' = [at |-> "write", input |-> <<>>]

NextRoundTrip ==
    \/ RoundTripCreate
    \/ RoundTripWrite
    \/ RoundTripReset
    \/ RoundTripRead
    \/ RoundTripAgain

SpecRoundTrip == InitRoundTrip /\ [][NextRoundTrip]_vars

\* C1: for every n with 0 <= n <= size, Write of an n-byte buffer at cursor 0,
\* then Reset, then Read into an n-byte buffer returns n bytes that are the
\* bytes written.
C1_RoundTrip ==
    /\ pc.at # "failed"
    /\ pc.at = "done" =>
          /\ last.op = "Read"
          /\ last.n = Len(pc.input)
          /\ last.data = pc.input

\* the round trip holds for every non-empty buffer; only the Write of an empty
\* buffer stops it
RoundTripNonEmpty ==
    /\ pc.at = "failed" => (last.op = "Write" /\ last.outcome = "panic" /\ last.len = 0)
    /\ (pc.at = "done" /\ Len(pc.input) > 0) =>
          /\ last.op = "Read"
          /\ last.outcome = "ok"
          /\ last.n = Len(pc.input)
          /\ last.data = pc.input

----------------------------------------------------------------------------
(* Two relative seeks against one absolute seek (TestSeekRelative and      *)
(* TestSeekAbsolute): on a filled segment, from cursor c, Seek(a, relative) *)
(* and Seek(b, relative) and a Read; then back to c, Seek(c+a+b, absolute)  *)
(* and the same Read                                                        *)

InitSeek ==
    /\ kseg = [i \in {1} |-> NoKseg]
    /\ maps = [a \in {1} |-> 0]
    /\ segs = [h \in {1} |-> NoSegment]
    /\ last = NoCall
    /\ pc = [at |-> "create", c |-> 0, a |-> 0, b |-> 0, k |-> 0, r1 |-> NoCall]

SeekCreate ==
    /\ pc.at = "create"
    /\ \E h \in Handles, size \in 1..MaxSize : Create(h, size, TRUE)
    /\ pc' = [pc EXCEPT !.at = "fill"]

SeekFill ==
    /\ pc.at = "fill"
    /\ \E h \in Handles : \E p \in BytesOfLen(segs[h].Size) : Write(h, p)
    /\ pc' = [pc EXCEPT !.at = "start"]

SeekStartAt ==
    /\ pc.at = "start"
    /\ \E h \in Handles, c \in 0..MaxPos, a \in Offsets, b \in Offsets, k \in 1..MaxBuf :
         /\ c + a <= MaxPos
         /\ c + a + b <= MaxPos
         /\ Seek(h, c, SeekStart)
         /\ pc' = [pc EXCEPT !.at = "rel1", !.c = c, !.a = a, !.b = b, !.k = k]

SeekRelative1 ==
    /\ pc.at = "rel1"
    /\ \E h \in Handles : Seek(h, pc.a, SeekCurrent)
    /\ pc' = [pc EXCEPT !.at = IF last'.outcome = "ok" THEN "rel2" ELSE "refused"]

SeekRelative2 ==
    /\ pc.at = "rel2"
    /\ \E h \in Handles : Seek(h, pc.b, SeekCurrent)
    /\ pc' = [pc EXCEPT !.at = IF last'.outcome = "ok" THEN "read1" ELSE "refused"]

SeekRead1 ==
    /\ pc.at = "read1"
    /\ \E h \in Handles : Read(h, pc.k)
    /\ pc' = [pc EXCEPT !.at = "back", !.r1 = last']

SeekBack ==
    /\ pc.at = "back"
    /\ \E h \in Handles : Seek(h, pc.c, SeekStart)
    /\ pc' = [pc EXCEPT !.at = "abs"]

SeekAbsolute ==
    /\ pc.at = "abs"
    /\ \E h \in Handles : Seek(h, pc.c + pc.a + pc.b, SeekStart)
    /\ pc' = [pc EXCEPT !.at = "read2"]

SeekRead2 ==
    /\ pc.at = "read2"
    /\ \E h \in Handles : Read(h, pc.k)
    /\ pc' = [pc EXCEPT !.at = "done"]

NextSeek ==
    \/ SeekCreate
    \/ SeekFill
    \/ SeekStartAt
    \/ SeekRelative1
    \/ SeekRelative2
    \/ SeekRead1
    \/ SeekBack
    \/ SeekAbsolute
    \/ SeekRead2

SpecSeek == InitSeek /\ [][NextSeek]_vars

----------------------------------------------------------------------------
(* Reading to the end (TestWriteFullPartialReadHead, ...ReadTail): a filled *)
(* segment is read up to cursor k, then read in chunks of any sizes until  *)
(* Read reports end-of-stream                                              *)

InitReadToEnd ==
    /\ kseg = [i \in {1} |-> NoKseg]
    /\ maps = [a \in {1} |-> 0]
    /\ segs = [h \in {1} |-> NoSegment]
    /\ last = NoCall
    /\ pc = [at |-> "create", k |-> 0, acc |-> <<>>, reads |-> 0]

ReadToEndCreate ==
    /\ pc.at = "create"
    /\ \E h \in Handles, size \in 1..MaxBuf : Create(h, size, TRUE)
    /\ pc' = [pc EXCEPT !.at = "fill"]

ReadToEndFill ==
    /\ pc.at = "fill"
    /\ \E h \in Handles : \E p \in BytesOfLen(segs[h].Size) : Write(h, p)
    /\ pc' = [pc EXCEPT !.at = "reset"]

ReadToEndReset ==
    /\ pc.at = "reset"
    /\ \E h \in Handles : Reset(h)
    /\ pc' = [pc EXCEPT !.at = "head"]

\* the head of the segment is read first, which leaves the cursor at k
ReadToEndHead ==
    /\ pc.at = "head"
    /\ \E h \in Handles : \E k \in 0..segs[h].Size :
         /\ Read(h, k)
         /\ pc' = [pc EXCEPT !.at = "read", !.k = k]

\* io.Copy / ioutil.ReadAll: Read until it reports something else than n > 0
ReadToEndRead ==
    /\ pc.at = "read"
    /\ pc.reads <= MaxBuf
    /\ \E h \in Handles, plen \in 1..MaxBuf :
         /\ Read(h, plen)
         /\ pc' = IF last'.outcome = "ok"
                  THEN [pc EXCEPT !.acc = pc.acc \o last'.data, !.reads = pc.reads + 1]
                  ELSE [pc EXCEPT !.at = IF last'.outcome = "eof" THEN "done" ELSE "failed"]

NextReadToEnd ==
    \/ ReadToEndCreate
    \/ ReadToEndFill
    \/ ReadToEndReset
    \/ ReadToEndHead
    \/ ReadToEndRead

\* the caller keeps reading until the end of the stream
SpecReadToEnd == InitReadToEnd /\ [][NextReadToEnd]_vars /\ WF_vars(NextReadToEnd)

\* what was read so far is the contents from k on, every successful Read made
\* progress, and at end-of-stream it is the contents [k, size)
C11_State ==
    /\ pc.at # "failed"
    /\ pc.at \in {"read", "done"} =>
          \A h \in Handles :
             /\ segs[h].offset = pc.k + Len(pc.acc)
             /\ pc.reads <= Len(pc.acc)
             /\ Len(pc.acc) <= segs[h].Size - pc.k
             /\ \A i \in 1..Len(pc.acc) : pc.acc[i] = kseg[segs[h].Id].mem[pc.k + i]
    /\ pc.at = "done" =>
          \A h \in Handles :
             /\ last.op = "Read" /\ last.outcome = "eof" /\ last.n = 0
             /\ Len(pc.acc) = segs[h].Size - pc.k

\* C11: on a live segment, from any cursor k with 0 <= k <= size, repeated Reads
\* with non-empty buffers of any sizes reach end-of-stream after finitely many
\* calls, and the bytes returned before it, put together, are the contents
\* [k, size) whatever the sizes of the buffers.
C11_ReadToEnd == []C11_State /\ <>(pc.at = "done")

\* the tail of a segment was read to the end in more than one Read and held a
\* written byte
C11_Witness ==
    /\ pc.at = "done"
    /\ pc.k > 0
    /\ pc.reads > 1
    /\ \E i \in 1..Len(pc.acc) : pc.acc[i] = 1

----------------------------------------------------------------------------
(* Properties of Destroy and of the empty Write, checked under Spec *)

\* Destroy or DestroySegment was called on kernel id: it is marked or gone
Destroyed(id) == id \in Ids /\ (kseg[id].rmid \/ kseg[id] = Tombstone)

\* C12: after Destroy() or DestroySegment(id), every further Read and every
\* further Write on a Segment value over that id fails with an error, neither
\* success nor end-of-stream, at every cursor and for every buffer, and the
\* program does not crash.
C12_AfterDestroyFails ==
    (/\ last.op \in {"Read", "Write"}
     /\ LastOnSegment
     /\ Destroyed(LastSeg.Id))
    => last.outcome = "err"

\* what the code does after Destroy: with the segment reclaimed and the cursor
\* inside it, a Read and a Write of a non-empty buffer fail with the error of
\* the attach; at cursor >= size they report end-of-stream, and the Write of an
\* empty buffer panics as it does on a live segment
AfterDestroyReclaimed ==
    (/\ last.op \in {"Read", "Write"}
     /\ LastOnSegment
     /\ ~Exists(LastSeg.Id))
    => /\ last.pre >= LastSeg.Size => last.outcome = "eof"
       /\ (last.pre < LastSeg.Size /\ (last.op = "Read" \/ last.len > 0)) =>
             last.outcome = "err"
       /\ (last.pre < LastSeg.Size /\ last.op = "Write" /\ last.len = 0) =>
             last.outcome = "panic"

\* C13: the Write of an empty buffer on a live segment with cursor < size
\* returns 0 bytes written with no error and no panic, and leaves the cursor and
\* the contents as they were.
C13_EmptyWriteNoOp ==
    (/\ last.op = "Write"
     /\ LastLive
     /\ last.len = 0
     /\ last.pre < LastSeg.Size)
    => /\ last.outcome = "ok"
       /\ last.n = 0
       /\ LastSeg.offset = last.pre

\* the Write of an empty buffer changes neither the cursor nor the contents,
\* but it ends in a panic
EmptyWritePanics ==
    (/\ last.op = "Write"
     /\ LastLive
     /\ last.len = 0
     /\ last.pre < LastSeg.Size)
    => /\ last.outcome = "panic"
       /\ LastSeg.offset = last.pre

----------------------------------------------------------------------------
(* A segment used without Attach (makeSegment, writeFullSegment,           *)
(* TestWriteFullReadFull): Create, Writes, Resets and Reads in any order,  *)
(* then Destroy; the process never calls Attach                            *)

InitNoAttach ==
    /\ kseg = [i \in {1} |-> NoKseg]
    /\ maps = [a \in {1} |-> 0]
    /\ segs = [h \in {1} |-> NoSegment]
    /\ last = NoCall
    /\ pc = [at |-> "create"]

NoAttachCreate ==
    /\ pc.at = "create"
    /\ \E h \in Handles, size \in 1..MaxSize : Create(h, size, TRUE)
    /\ pc' = [at |-> "live"]

NoAttachWrite ==
    /\ pc.at = "live"
    /\ \E h \in Handles, p \in Buffers \ {<<>>} : Write(h, p)
    /\ UNCHANGED pc

NoAttachRead ==
    /\ pc.at = "live"
    /\ \E h \in Handles, plen \in 1..MaxBuf : Read(h, plen)
    /\ UNCHANGED pc

NoAttachReset ==
    /\ pc.at = "live"
    /\ \E h \in Handles : Reset(h)
    /\ UNCHANGED pc

NoAttachDestroy ==
    /\ pc.at = "live"
    /\ \E h \in Handles : Destroy(h)
    /\ pc' = [at |-> "destroyed"]

NextNoAttach ==
    \/ NoAttachCreate
    \/ NoAttachWrite
    \/ NoAttachRead
    \/ NoAttachReset
    \/ NoAttachDestroy

SpecNoAttach == InitNoAttach /\ [][NextNoAttach]_vars

----------------------------------------------------------------------------
(* Destroy against attachments (README, Basic Usage): the process attaches *)
(* the segment at up to two addresses, detaches them and destroys the      *)
(* segment in any order, writing and reading in between                    *)

InitRmid ==
    /\ kseg = [i \in {1} |-> NoKseg]
    /\ maps = [a \in {1, 2} |-> 0]
    /\ segs = [h \in {1} |-> NoSegment]
    /\ last = NoCall
    /\ pc = [at |-> "free"]

NextRmid ==
    \/ \E h \in Handles, size \in 1..MaxSize : Create(h, size, TRUE) /\ UNCHANGED pc
    \/ \E h \in Handles, a \in Addrs : Attach(h, a) /\ UNCHANGED pc
    \/ \E h \in Handles, a \in Addrs : Detach(h, a) /\ UNCHANGED pc
    \/ \E h \in Handles : Destroy(h) /\ UNCHANGED pc
    \/ \E h \in Handles, p \in BytesOfLen(1) : Write(h, p) /\ UNCHANGED pc
    \/ \E h \in Handles : Reset(h) /\ UNCHANGED pc
    \/ \E h \in Handles, start \in 0..MaxSize : ReadChunk(h, 1, start) /\ UNCHANGED pc

SpecRmid == InitRmid /\ [][NextRmid]_vars

\* a mark stays only on a segment that exists and is attached, and every
\* attachment is of a segment that exists
C15_State ==
    /\ \A id \in Ids : kseg[id].rmid => (Exists(id) /\ Nattch(id) > 0)
    /\ \A a \in Addrs : maps[a] # 0 => Exists(maps[a])

\* a Destroy that succeeds marks an attached segment and leaves its bytes, and
\* removes a segment nobody is attached to; a marked segment goes in the step
\* that detaches its last attachment and in no other; while it is marked its
\* bytes can still be read and written
C15_Step ==
    \A id \in Ids :
       /\ (last'.op = "Destroy" /\ last'.outcome = "ok" /\ last'.kid = id) =>
             IF Nattch(id) > 0
             THEN kseg'[id] = [kseg[id] EXCEPT !.rmid = TRUE]
             ELSE ~Exists(id)'
       /\ (Exists(id) /\ kseg[id].rmid) =>
             /\ ~Exists(id)' <=> Nattch(id)' = 0
             /\ ~Exists(id)' => last'.op = "Detach"
             /\ (/\ last'.op \in {"Write", "ReadChunk"}
                 /\ last'.kcall # "none"
                 /\ InBounds(id, last'.klen, last'.koff))
                   => last'.outcome = "ok"

\* C15: Destroy only marks the kernel segment for removal: while a process is
\* attached the memory stays mapped and usable through the attachments, and it
\* is reclaimed exactly when the last attachment is detached, at once if nobody
\* is attached.
C15_DestroyMarks == []C15_State /\ [][C15_Step]_vars

\* a written segment, destroyed while attached twice, is still there with its
\* bytes after the first of the two was detached
C15_Witness ==
    /\ last.op = "Detach"
    /\ last.outcome = "ok"
    /\ \E id \in Ids :
          /\ Exists(id)
          /\ kseg[id].rmid
          /\ Nattch(id) = 1
          /\ \E i \in 1..kseg[id].size : kseg[id].mem[i] = 1

----------------------------------------------------------------------------
(* Who removes a kernel segment, checked under Spec *)

\* C16 as stated: every step that is not a Destroy or DestroySegment leaves every existing
\* kernel segment existing and leaves its removal mark as it was.
C16_OnlyDestroyRemovesAsStated ==
    [][last'.op \notin {"Destroy", "DestroySegment"} =>
          \A id \in Ids :
             Exists(id) => (Exists(id)' /\ kseg'[id].rmid = kseg[id].rmid)]_vars

\* C16 (amended): a kernel segment is marked for removal only by Destroy or
\* DestroySegment, and a segment that is not marked is removed only by them: Create, Open, Read,
\* Write, ReadChunk, Seek, Reset, Position, Attach, Detach and the drop of the
\* Segment value leave it existing and unmarked; a segment Destroy has marked is
\* removed by the Detach of its last attachment and by no other of these calls.
C16_OnlyDestroyRemoves ==
    [][last'.op \notin {"Destroy", "DestroySegment"} =>
          \A id \in Ids :
             /\ (Exists(id) /\ ~kseg[id].rmid) => (Exists(id)' /\ ~kseg'[id].rmid)
             /\ (Exists(id) /\ kseg[id].rmid) =>
                   \/ Exists(id)' /\ kseg'[id].rmid
                   \/ last'.op = "Detach" /\ Nattch(id)' = 0]_vars

\* the Segment value over a written, attached segment was dropped and the
\* kernel segment is still there, unmarked
C16_Witness ==
    /\ last.op = "Drop"
    /\ \E id \in Ids :
          /\ Exists(id)
          /\ ~kseg[id].rmid
          /\ Nattch(id) > 0
          /\ \E i \in 1..kseg[id].size : kseg[id].mem[i] = 1

----------------------------------------------------------------------------
(* Lifecycle over two kernel ids and two Segment values: Create, OpenSegment *)
(* with a mode its owner cannot read, Open, Destroy, DestroySegment, Attach, *)
(* Detach and the drop of a Segment value, in any order                      *)

\* DestroySegment(id) called with a bare id
DestroySegmentById(id) ==
    /\ Running
    /\ DestroySegment(id, [NoCall EXCEPT !.op = "DestroySegment", !.arg = id])
    /\ UNCHANGED <<maps, segs>>

InitLifecycle ==
    /\ kseg = [i \in {1, 2} |-> NoKseg]
    /\ maps = [a \in {1} |-> 0]
    /\ segs = [h \in {1, 2} |-> NoSegment]
    /\ last = NoCall
    /\ pc = [at |-> "free"]

NextLifecycle ==
    \/ \E h \in Handles, size \in Sizes, grant \in BOOLEAN :
          Create(h, size, grant) /\ UNCHANGED pc
    \/ \E h \in Handles, size \in 1..MaxSize :
          /\ OpenSegment(h, size, IpcCreate + IpcExclusive, DefaultPerm - OwnerRead, TRUE)
          /\ UNCHANGED pc
    \/ \E h \in Handles, id \in {NoId} \cup Ids : Open(h, id) /\ UNCHANGED pc
    \/ \E h \in Handles : Destroy(h) /\ UNCHANGED pc
    \/ \E id \in Ids : DestroySegmentById(id) /\ UNCHANGED pc
    \/ \E h \in Handles : Drop(h) /\ UNCHANGED pc
    \/ \E h \in Handles, a \in Addrs : Attach(h, a) /\ UNCHANGED pc
    \/ \E h \in Handles, a \in Addrs : Detach(h, a) /\ UNCHANGED pc

SpecLifecycle == InitLifecycle /\ [][NextLifecycle]_vars

\* the last call was Create(size): OpenSegment with the mode 0600
LastIsCreate == last.op = "OpenSegment" /\ last.mode = DefaultPerm

OpenFrame(h) ==
    /\ kseg' = kseg
    /\ maps' = maps
    /\ \A g \in Handles \ {h} : segs'[g] = segs[g]
    /\ last'.outcome # "ok" => (last'.outcome = "err" /\ segs' = segs)
    /\ last'.outcome = "ok" =>
          segs'[h] = [alloc |-> TRUE, Id |-> last'.arg,
                      Size |-> kseg[last'.arg].size, offset |-> 0]

\* C19 as stated: Open(id) of an existing kernel id returns a Segment with that
\* id, the size the kernel reports and cursor 0, and allocates or changes no
\* kernel segment; Open of an id that does not exist fails and returns no Segment.
C19_OpenAsStated ==
    [][\A h \in Handles :
          (last'.op = "Open" /\ last'.h = h) =>
             /\ OpenFrame(h)
             /\ last'.outcome = "ok" <=> Exists(last'.arg)]_vars

\* C19 (amended): Open(id) of an existing kernel id that the caller may read
\* returns a Segment with that id, the size the kernel reports and cursor 0, and
\* allocates or changes no kernel segment; Open of an id that does not exist
\* (never created or already reclaimed) or that the caller may not read fails
\* with an error and returns no Segment.
C19_Open ==
    [][\A h \in Handles :
          (last'.op = "Open" /\ last'.h = h) =>
             /\ OpenFrame(h)
             /\ last'.outcome = "ok" <=> (Exists(last'.arg) /\ Readable(kseg[last'.arg]))]_vars

\* a second Segment value was opened over a segment another value holds, after
\* an Open of a reclaimed id had failed
C19_Witness ==
    /\ last.op = "Open"
    /\ last.outcome = "ok"
    /\ \E g \in Handles \ {last.h} : segs[g].alloc /\ segs[g].Id = LastSeg.Id
    /\ LastSeg.Size = kseg[LastSeg.Id].size
    /\ \E id \in Ids : kseg[id] = Tombstone

----------------------------------------------------------------------------
(* Two processes over one kernel segment: Segment value 1 comes from Create *)
(* in one process, Segment value 2 from Open(id) in another; their Writes,  *)
(* Reads, ReadChunks and Resets interleave in any order.  pc.shadow is what *)
(* was written at each offset last and pc.by is the value it was written    *)
(* through (0: nobody, a fresh segment holds 0)                             *)

InitShare ==
    /\ kseg = [i \in {1} |-> NoKseg]
    /\ maps = [a \in {1} |-> 0]
    /\ segs = [h \in {1, 2} |-> NoSegment]
    /\ last = NoCall
    /\ pc = [at |-> "create", shadow |-> <<>>, by |-> <<>>]

ShareCreate ==
    /\ pc.at = "create"
    /\ \E size \in 1..MaxSize :
         /\ Create(1, size, TRUE)
         /\ pc' = [at |-> "open", shadow |-> [i \in 1..size |-> 0],
                   by |-> [i \in 1..size |-> 0]]

ShareOpen ==
    /\ pc.at = "open"
    /\ Open(2, segs[1].Id)
    /\ pc' = [pc EXCEPT !.at = "run"]

ShareWrite ==
    /\ pc.at = "run"
    /\ \E h \in Handles, n \in 1..MaxSize :
       \E p \in BytesOfLen(n) :
         /\ Write(h, p)
         /\ pc' = IF last'.outcome = "ok"
                  THEN [pc EXCEPT
                          !.shadow = [i \in 1..Len(pc.shadow) |->
                                        IF i > last'.pre /\ i <= last'.pre + last'.n
                                        THEN p[i - last'.pre] ELSE pc.shadow[i]],
                          !.by = [i \in 1..Len(pc.by) |->
                                        IF i > last'.pre /\ i <= last'.pre + last'.n
                                        THEN h ELSE pc.by[i]]]
                  ELSE pc

ShareRead ==
    /\ pc.at = "run"
    /\ \E h \in Handles, plen \in 1..MaxSize : Read(h, plen)
    /\ UNCHANGED pc

ShareReadChunk ==
    /\ pc.at = "run"
    /\ \E h \in Handles, length \in -1..MaxSize, start \in 0..MaxSize :
         /\ start + (IF length < 0 THEN segs[h].Size ELSE length) <= segs[h].Size
         /\ ReadChunk(h, length, start)
    /\ UNCHANGED pc

ShareReset ==
    /\ pc.at = "run"
    /\ \E h \in Handles : Reset(h)
    /\ UNCHANGED pc

NextShare ==
    \/ ShareCreate
    \/ ShareOpen
    \/ ShareWrite
    \/ ShareRead
    \/ ShareReadChunk
    \/ ShareReset

SpecShare == InitShare /\ [][NextShare]_vars

\* the offset the last Read or ReadChunk started at
LastFrom == IF last.op = "ReadChunk" THEN last.arg ELSE last.pre

\* both values are over the one kernel id; a Read inside the segment through
\* either succeeds, and what a Read or ReadChunk returns through either is what
\* was written last at those offsets, through whichever value
C17_State ==
    pc.at = "run" =>
       /\ segs[1].Id = segs[2].Id /\ Exists(segs[1].Id)
       /\ (last.op = "Read" /\ last.pre < kseg[LastSeg.Id].size) =>
             (last.outcome = "ok" /\ last.n > 0)
       /\ last.op = "ReadChunk" =>
             (last.outcome = "ok" /\
              last.n = (IF last.len < 0 THEN kseg[LastSeg.Id].size ELSE last.len))
       /\ (last.op \in {"Read", "ReadChunk"} /\ last.outcome = "ok") =>
             \A i \in 1..last.n : last.data[i] = pc.shadow[LastFrom + i]

\* a call on one value leaves the cursor of the other value where it was
C17_Step ==
    \A h \in Handles :
       (pc.at = "run" /\ last'.h = h) =>
          \A g \in Handles \ {h} : segs'[g] = segs[g]

\* C17: for two Segment values over the same kernel id held by different
\* processes, one from Create and one from Open(id), bytes written through one
\* are returned by a later Read or ReadChunk at the same offsets through the
\* other, under every interleaving of their calls, and no call on one value
\* changes the cursor of the other.
C17_Sharing == []C17_State /\ [][C17_Step]_vars

\* a Read through one value returned, past its first byte, a byte written
\* through the other value, next to a byte written through itself
C17_Witness ==
    /\ pc.at = "run"
    /\ last.op = "Read"
    /\ last.outcome = "ok"
    /\ last.n = 2
    /\ \E i, j \in 1..last.n :
          /\ pc.by[last.pre + i] # last.h /\ pc.by[last.pre + i] # 0
          /\ last.data[i] = 1
          /\ pc.by[last.pre + j] = last.h

----------------------------------------------------------------------------
(* ReadChunk, checked under Spec *)

\* every ReadChunk, whatever its outcome, leaves every Segment value and the
\* kernel as they were
C20_Step == last'.op = "ReadChunk" => (segs' = segs /\ kseg' = kseg)

\* on a live segment, ReadChunk(-1, 0) returns the Size bytes of the segment, and
\* ReadChunk(length, start) inside the segment returns the bytes
\* [start, start+length)
C20_State ==
    (last.op = "ReadChunk" /\ LastLive) =>
       /\ (last.len < 0 /\ last.arg = 0) =>
             /\ last.outcome = "ok"
             /\ last.n = LastSeg.Size
             /\ last.data = kseg[LastSeg.Id].mem
       /\ (last.len >= 0 /\ last.arg >= 0 /\ last.arg + last.len <= LastSeg.Size) =>
             /\ last.outcome = "ok"
             /\ last.n = last.len
             /\ last.data = LastBytes(last.arg, last.len)

\* C20: ReadChunk(length, start) never changes the cursor, whether it succeeds
\* or fails; with a negative length and start 0 it returns the whole segment,
\* exactly Size bytes equal to the contents, and with 0 <= length and
\* start + length <= size it returns exactly the contents [start, start+length).
C20_ReadChunk == []C20_State /\ [][C20_Step]_vars

\* a ReadChunk from the middle of a written segment, with the cursor at the end
C20_Witness ==
    /\ last.op = "ReadChunk"
    /\ LastLive
    /\ last.outcome = "ok"
    /\ last.arg > 0
    /\ last.len > 0
    /\ last.data[1] = 1
    /\ LastSeg.offset = LastSeg.Size
    /\ LastSeg.offset = last.pre

----------------------------------------------------------------------------
(* The attachments around Read, Write and ReadChunk, checked under Spec *)

\* C27: every Read, Write and ReadChunk attaches the segment internally and
\* detaches it again before it returns, so after the call, success or failure,
\* the process holds the attachments it held before, as many on each segment,
\* and an address Attach() returned earlier is still mapped on its segment.
C27_AttachBalance ==
    [][(last'.op \in {"Read", "Write", "ReadChunk"} /\ last'.outcome # "fault") =>
          /\ maps' = maps
          /\ \A id \in Ids : Nattch(id)' = Nattch(id)
          /\ \A a \in Addrs : maps[a] # 0 => (maps'[a] = maps[a] /\ Exists(maps[a])')]_vars

\* a Write went through its own attach and detach while the process held an
\* address from Attach() on the segment
C27_Witness ==
    /\ last.op = "Write"
    /\ last.outcome = "ok"
    /\ last.kcall = "write"
    /\ \E a \in Addrs : maps[a] = LastSeg.Id
    /\ Nattch(LastSeg.Id) = 1

----------------------------------------------------------------------------
(* Segment values written as literals: &Segment{Id: id, Size: size}, among  *)
(* them the one with Id 0 that no kernel segment backs, and values from     *)
(* Create                                                                   *)

\* a Segment literal with the exported fields given, the cursor at 0
Literal(h, id, size) ==
    /\ Running
    /\ ~segs[h].alloc
    /\ segs' = [segs EXCEPT ![h] = [alloc |-> TRUE, Id |-> id, Size |-> size, offset |-> 0]]
    /\ last' = [NoCall EXCEPT !.op = "Literal", !.h = h, !.arg = id, !.len = size]
    /\ UNCHANGED <<kseg, maps>>

InitLiteral ==
    /\ kseg = [i \in {1} |-> NoKseg]
    /\ maps = [a \in {1} |-> 0]
    /\ segs = [h \in {1} |-> NoSegment]
    /\ last = NoCall
    /\ pc = [at |-> "free"]

NextLiteral ==
    \/ \E h \in Handles, size \in 1..MaxSize : Create(h, size, TRUE) /\ UNCHANGED pc
    \/ \E h \in Handles, id \in {NoId} \cup Ids, size \in 0..MaxSize :
          Literal(h, id, size) /\ UNCHANGED pc
    \/ \E h \in Handles : Drop(h) /\ UNCHANGED pc
    \/ \E h \in Handles, plen \in 0..MaxBuf : Read(h, plen) /\ UNCHANGED pc
    \/ \E h \in Handles, p \in Buffers : Write(h, p) /\ UNCHANGED pc
    \/ \E h \in Handles : Reset(h) /\ UNCHANGED pc
    \/ \E h \in Handles, offset \in 0..MaxPos : Seek(h, offset, SeekStart) /\ UNCHANGED pc

SpecLiteral == InitLiteral /\ [][NextLiteral]_vars

\* C21: Read on a Segment whose id is the invalid sentinel 0 fails with an error
\* before any other check: it issues no kernel call, copies no bytes, leaves the
\* cursor unchanged, and reports the error, not end-of-stream, even when
\* cursor >= size.
C21_ReadNoId ==
    (last.op = "Read" /\ LastOnSegment /\ LastSeg.Id = NoId) =>
       /\ last.outcome = "err"
       /\ last.kcall = "none"
       /\ last.n = 0
       /\ last.data = <<>>
       /\ LastSeg.offset = last.pre

\* a Read on a literal with Id 0 whose cursor stood beyond its Size
C21_Witness ==
    /\ last.op = "Read"
    /\ LastOnSegment
    /\ LastSeg.Id = NoId
    /\ last.pre > LastSeg.Size
    /\ last.pre > 0
    /\ last.len > 0
    /\ last.outcome = "err"

\* C25: Write on a Segment whose id is the invalid sentinel 0, with
\* Size > cursor, fails with an error, issues no kernel write and leaves the
\* cursor unchanged.
C25_WriteNoId ==
    (/\ last.op = "Write"
     /\ LastOnSegment
     /\ LastSeg.Id = NoId
     /\ LastSeg.Size > last.pre)
    => /\ last.outcome = "err"
       /\ last.kcall = "none"
       /\ LastSeg.offset = last.pre

\* what Write does on a Segment with Id 0 and Size > cursor: a non-empty buffer
\* goes to sysv_shm_write with id 0, whose attach fails; an empty one panics;
\* the cursor stays
WriteNoIdAsksKernel ==
    (/\ last.op = "Write"
     /\ LastOnSegment
     /\ LastSeg.Id = NoId
     /\ LastSeg.Size > last.pre)
    => /\ LastSeg.offset = last.pre
       /\ last.len > 0 => (last.outcome = "err" /\ last.kcall = "write" /\ last.kid = NoId)
       /\ last.len = 0 => last.outcome = "panic"

----------------------------------------------------------------------------
(* Failed transfers and empty Reads, checked under Spec *)

\* a Read or Write whose kernel call failed returned 0 bytes and an error and
\* left the cursor
C22_State ==
    (last.op \in {"Read", "Write"} /\ last.kcall # "none" /\ last.outcome = "err") =>
       /\ last.n = 0
       /\ LastSeg.offset = last.pre

\* a Read or Write step moves the cursor only when it succeeds, and then by the
\* count it returns; a kernel call on a segment that is gone fails
C22_Step ==
    \A h \in Handles :
       (last'.op \in {"Read", "Write"} /\ last'.h = h) =>
          /\ segs'[h].offset # segs[h].offset => (last'.outcome = "ok" /\ last'.n > 0)
          /\ last'.outcome = "ok" => segs'[h].offset = segs[h].offset + last'.n
          /\ (last'.kcall # "none" /\ ~Exists(last'.kid)) =>
                (last'.outcome = "err" /\ segs' = segs /\ kseg' = kseg)

\* C22: when the kernel raw-read or raw-write fails, for example because the id
\* was removed, Read and Write return 0 bytes and an error and the cursor is
\* what it was before the call; the cursor advances only on a successful
\* transfer.
C22_FailureKeepsCursor == []C22_State /\ [][C22_Step]_vars

\* a Write in the middle of a segment that was removed after the first Write
C22_Witness ==
    /\ last.op = "Write"
    /\ last.kcall = "write"
    /\ last.outcome = "err"
    /\ last.pre > 0
    /\ last.pre < LastSeg.Size
    /\ LastSeg.offset = last.pre
    /\ ~Exists(LastSeg.Id)

\* a Read into an empty buffer on a live segment with cursor < size reported
\* end-of-stream with zero bytes and left the cursor
C23_State ==
    (/\ last.op = "Read"
     /\ LastLive
     /\ last.len = 0
     /\ last.pre < LastSeg.Size)
    => /\ last.outcome = "eof"
       /\ last.n = 0
       /\ LastSeg.offset = last.pre

\* the Read into a non-empty buffer that follows it on the live segment starts
\* at that cursor and returns the bytes there
C23_Step ==
    (/\ last.op = "Read" /\ last.len = 0 /\ last.pre < LastSeg.Size
     /\ LastLive
     /\ last'.op = "Read" /\ last'.h = last.h /\ last'.len > 0)
    => /\ last'.pre = last.pre
       /\ last'.outcome = "ok"
       /\ last'.n = Min(last'.len, LastSeg.Size - last.pre)
       /\ last'.data = LastBytes(last.pre, last'.n)

\* C23: Read with an empty buffer on a live segment with cursor < size reports
\* end-of-stream with zero bytes, not success with zero, and leaves the cursor,
\* so a later Read with a non-empty buffer still returns the bytes at that
\* cursor.
C23_EmptyRead == []C23_State /\ [][C23_Step]_vars

\* after a Read into an empty buffer in the middle of a written segment
C23_Witness ==
    /\ last.op = "Read"
    /\ LastLive
    /\ last.len = 0
    /\ last.pre > 0
    /\ last.pre < LastSeg.Size
    /\ last.outcome = "eof"
    /\ kseg[LastSeg.Id].mem[last.pre + 1] = 1

----------------------------------------------------------------------------
(* ReadChunk against the bounds of the segment, checked under Spec *)

\* C28: ReadChunk(length, start) never issues a kernel read outside the
\* segment: for every length and start it either reads only offsets within
\* [0, size) or fails with an error without reading.
C28_ReadChunkInBounds ==
    (last.op = "ReadChunk" /\ LastLive) =>
       \/ last.outcome = "err"
       \/ InBounds(LastSeg.Id, last.klen, last.koff)

\* what ReadChunk hands to the kernel: the length and the start it was given,
\* unchecked (the Size for a negative length)
ReadChunkUnchecked ==
    (last.op = "ReadChunk" /\ LastLive) =>
       /\ last.kcall = "read"
       /\ last.koff = last.arg
       /\ last.klen = (IF last.len < 0 THEN LastSeg.Size ELSE last.len)
       /\ last.outcome \in {"ok", "fault"}
       /\ last.outcome = "fault" => ~InBounds(LastSeg.Id, last.klen, last.koff)

----------------------------------------------------------------------------
(* Failed opens, checked under SpecLifecycle *)

\* C29: whenever OpenSegment or Create returns an error, also when the
\* allocation succeeded and the size query that follows failed, no kernel
\* segment allocated by that call remains in existence.
C29_NoLeakOnFailedOpen ==
    [][(last'.op = "OpenSegment" /\ last'.outcome = "err") =>
          \A id \in Ids : kseg'[id].exists => kseg[id].exists]_vars

\* what OpenSegment leaves behind: it fails after the allocation exactly when
\* the mode of the new segment keeps its owner from reading it, and the segment
\* then stays, with no Segment value over it
OpenSegmentLeaks ==
    [][(last'.op = "OpenSegment" /\ last'.outcome = "err" /\ kseg' # kseg) =>
          /\ segs' = segs
          /\ last'.kid \in Ids
          /\ ~kseg[last'.kid].exists
          /\ kseg'[last'.kid].exists
          /\ ~Readable(kseg'[last'.kid])]_vars

----------------------------------------------------------------------------
(* Values beyond the width of C.int: Create and ReadChunk with sizes and    *)
(* starts of one and two more than the C.int range, next to small ones      *)

\* the number of values of a C.int
CIntRange == 2^CIntBits

\* the value fits in a C.int
FitsCInt(x) == x >= 0 - 2^(CIntBits - 1) /\ x < 2^(CIntBits - 1)

WideSizes == {1, MaxSize, CIntRange + 1, CIntRange + MaxSize}

InitTruncate ==
    /\ kseg = [i \in {1} |-> NoKseg]
    /\ maps = [a \in {1} |-> 0]
    /\ segs = [h \in {1} |-> NoSegment]
    /\ last = NoCall
    /\ pc = [at |-> "free"]

NextTruncate ==
    \/ \E h \in Handles, size \in WideSizes : Create(h, size, TRUE) /\ UNCHANGED pc
    \/ \E h \in Handles, n \in 1..MaxSize : \E p \in BytesOfLen(n) : Write(h, p) /\ UNCHANGED pc
    \/ \E h \in Handles, plen \in 1..MaxSize : Read(h, plen) /\ UNCHANGED pc
    \/ \E h \in Handles : Reset(h) /\ UNCHANGED pc
    \/ \E h \in Handles, length \in {1, CIntRange + 1}, start \in {0, 1, CIntRange, CIntRange + 1} :
          ReadChunk(h, length, start) /\ UNCHANGED pc

SpecTruncate == InitTruncate /\ [][NextTruncate]_vars

\* the size, offset and length the last call asked the kernel for, as the
\* caller gave them
AskedSize == last.arg
AskedOffset == IF last.op = "ReadChunk" THEN last.arg ELSE last.pre
AskedLength ==
    IF last.op = "ReadChunk"
    THEN (IF last.len < 0 THEN LastSeg.Size ELSE last.len)
    ELSE ClampLength(last.len, LastSeg.Size, last.pre)

\* C30: the size passed to the kernel by Create and the offset and length
\* passed by Read, Write and ReadChunk equal the requested size, the cursor and
\* the clamped length for every value, also for values that do not fit in the
\* C int: the conversion never wraps.
C30_NoTruncation ==
    /\ (last.op = "OpenSegment" /\ last.outcome = "ok") =>
          kseg[last.kid].size = AskedSize
    /\ (last.op \in {"Read", "Write", "ReadChunk"} /\ last.kcall # "none") =>
          (last.koff = AskedOffset /\ last.klen = AskedLength)

\* values that fit in the C int reach the kernel as they are; the others reach
\* it wrapped into its range
OnlyWideValuesWrap ==
    /\ (last.op = "OpenSegment" /\ last.outcome = "ok") =>
          /\ kseg[last.kid].size = CInt(AskedSize)
          /\ FitsCInt(AskedSize) => kseg[last.kid].size = AskedSize
    /\ (last.op \in {"Read", "Write", "ReadChunk"} /\ last.kcall # "none") =>
          /\ last.koff = CInt(AskedOffset) /\ last.klen = CInt(AskedLength)
          /\ FitsCInt(AskedOffset) => last.koff = AskedOffset
          /\ FitsCInt(AskedLength) => last.klen = AskedLength

----------------------------------------------------------------------------
(* What a call changes in the segments: two Segment values over two kernel  *)
(* segments, written and read at cursors set by Seek (as in                 *)
(* TestWriteFullPartialReadChunksDirect)                                    *)

InitFrame ==
    /\ kseg = [i \in {1, 2} |-> NoKseg]
    /\ maps = [a \in {1} |-> 0]
    /\ segs = [h \in {1, 2} |-> NoSegment]
    /\ last = NoCall
    /\ pc = [at |-> "free"]

NextFrame ==
    \/ \E size \in 1..MaxSize : Create(1, size, TRUE) /\ UNCHANGED pc
    \/ Create(2, 1, TRUE) /\ UNCHANGED pc
    \/ \E h \in Handles, n \in 1..MaxSize : \E p \in BytesOfLen(n) : Write(h, p) /\ UNCHANGED pc
    \/ \E h \in Handles, plen \in 1..MaxSize : Read(h, plen) /\ UNCHANGED pc
    \/ \E h \in Handles, start \in 0..1 : ReadChunk(h, 1, start) /\ UNCHANGED pc
    \/ \E h \in Handles, offset \in 0..MaxSize : Seek(h, offset, SeekStart) /\ UNCHANGED pc
    \/ \E h \in Handles : Reset(h) /\ UNCHANGED pc
    \/ \E h \in Handles : Position(h) /\ UNCHANGED pc

SpecFrame == InitFrame /\ [][NextFrame]_vars

\* C26: Write changes only the segment bytes at offsets [cursor, cursor+n),
\* n being the count it returns: every byte of the segment outside that range
\* and every byte of every other kernel segment is unchanged; Read, ReadChunk,
\* Seek, Reset and Position change no segment byte at all.
C26_WriteFrame ==
    [][/\ last'.op = "Write" =>
             \A id \in Ids :
                /\ kseg'[id].exists = kseg[id].exists
                /\ kseg'[id].size = kseg[id].size
                /\ Len(kseg'[id].mem) = Len(kseg[id].mem)
                /\ \A i \in 1..Len(kseg[id].mem) :
                      kseg'[id].mem[i] # kseg[id].mem[i] =>
                         /\ id = segs[last'.h].Id
                         /\ last'.outcome = "ok"
                         /\ i > last'.pre
                         /\ i <= last'.pre + last'.n
       /\ last'.op \in {"Read", "ReadChunk", "Seek", "Reset", "Position"} =>
             kseg' = kseg]_vars

\* a Write into the middle of a segment left the written byte before its
\* cursor and the written byte of the other segment as they were
C26_Witness ==
    /\ last.op = "Write"
    /\ last.outcome = "ok"
    /\ last.pre > 0
    /\ last.n > 0
    /\ kseg[LastSeg.Id].mem[last.pre] = 1
    /\ kseg[LastSeg.Id].mem[last.pre + 1] = 0
    /\ \E id \in Ids \ {LastSeg.Id} : Exists(id) /\ kseg[id].mem[1] = 1

----------------------------------------------------------------------------
(* Two threads on one Segment value.  Each thread makes one Read or Write;  *)
(* the call is taken line by line: the end test and the clamp (which read   *)
(* self.offset), the kernel call (which reads self.offset again for its     *)
(* offset argument), and self.offset += n as a load and a store.  With      *)
(* pc.serial the caller holds a mutex around each call.  pc.th[t] is what   *)
(* thread t holds in its locals.                                            *)

Threads == {1, 2}

NoThread == [at |-> "idle", kind |-> "none", plen |-> 0, length |-> 0,
             clampedAt |-> 0, koff |-> 0, tmp |-> 0, n |-> 0]

InitRace ==
    /\ kseg = [i \in {1} |-> NoKseg]
    /\ maps = [a \in {1} |-> 0]
    /\ segs = [h \in {1} |-> NoSegment]
    /\ last = NoCall
    /\ \E b \in BOOLEAN :
         pc = [at |-> "create", serial |-> b, lock |-> 0, th |-> [t \in Threads |-> NoThread]]

RaceCreate ==
    /\ pc.at = "create"
    /\ \E h \in Handles, size \in 1..MaxSize : Create(h, size, TRUE)
    /\ pc' = [pc EXCEPT !.at = "run"]

\* a caller that takes no mutex
CanBeginUnlocked(t) == TRUE

\* the caller's mutex, when it serializes: a call begins when no call is running
CanBegin(t) == pc.serial => pc.lock = 0

\* thread t calls Read(p) or Write(p) with len(p) = plen
RaceBegin(t) ==
    /\ pc.at = "run"
    /\ Running
    /\ pc.th[t].at = "idle"
    /\ CanBegin(t)
    /\ \E kind \in {"Read", "Write"}, plen \in 1..MaxSize :
         pc' = [pc EXCEPT !.lock = IF pc.serial THEN t ELSE 0,
                          !.th[t] = [NoThread EXCEPT !.at = "clamp", !.kind = kind,
                                                     !.plen = plen]]
    /\ UNCHANGED <<kseg, maps, segs, last>>

\* the thread is through its call: it returns and the caller releases the mutex
Return(t, n) == [pc EXCEPT !.lock = 0, !.th[t].at = "done", !.th[t].n = n]

\* if self.offset >= self.Size: return 0, io.EOF; else the clamp of the length
RaceClamp(t) ==
    /\ Running
    /\ pc.th[t].at = "clamp"
    /\ \E h \in Handles :
         pc' = IF AtEnd(segs[h])
               THEN Return(t, 0)
               ELSE [pc EXCEPT !.th[t].at = "call",
                               !.th[t].clampedAt = segs[h].offset,
                               !.th[t].length =
                                  ClampLength(pc.th[t].plen, segs[h].Size, segs[h].offset)]
    /\ UNCHANGED <<kseg, maps, segs, last>>

\* C.sysv_shm_read / C.sysv_shm_write (C.int(self.Id), .., C.int(length),
\* C.int(self.offset)): the offset is the cursor as it is now
RaceCall(t) ==
    /\ Running
    /\ pc.th[t].at = "call"
    /\ \E h \in Handles :
         LET kid == CInt(segs[h].Id)
             klen == CInt(pc.th[t].length)
             koff == CInt(segs[h].offset)
             p == [i \in 1..pc.th[t].plen |-> 1]
             called == [pc EXCEPT !.th[t].koff = koff]
         IN IF pc.th[t].kind = "Read"
            THEN \E r \in ReadOutcomes(kid, klen, koff) :
                   /\ kseg' = kseg
                   /\ IF r.fault
                      THEN /\ last' = [last EXCEPT !.outcome = "fault"]
                           /\ pc' = called
                      ELSE /\ last' = last
                           /\ pc' = LET v == Min(pc.th[t].plen, Len(r.data))
                                    IN IF v > 0
                                       THEN [called EXCEPT !.th[t].at = "load", !.th[t].n = v]
                                       ELSE [called EXCEPT !.lock = 0, !.th[t].at = "done"]
            ELSE \E w \in WriteOutcomes(kid, p, klen, koff) :
                   IF w.fault
                   THEN /\ last' = [last EXCEPT !.outcome = "fault"]
                        /\ kseg' = kseg
                        /\ pc' = called
                   ELSE /\ last' = last
                        /\ kseg' = [kseg EXCEPT ![kid].mem = w.mem]
                        /\ pc' = [called EXCEPT !.th[t].at = "load",
                                                !.th[t].n = pc.th[t].length]
    /\ UNCHANGED <<maps, segs>>

\* self.offset += n, the load
RaceLoad(t) ==
    /\ Running
    /\ pc.th[t].at = "load"
    /\ \E h \in Handles : pc' = [pc EXCEPT !.th[t].at = "store", !.th[t].tmp = segs[h].offset]
    /\ UNCHANGED <<kseg, maps, segs, last>>

\* self.offset += n, the store; the call returns n
RaceStore(t) ==
    /\ Running
    /\ pc.th[t].at = "store"
    /\ \E h \in Handles : segs' = [segs EXCEPT ![h].offset = pc.th[t].tmp + pc.th[t].n]
    /\ pc' = Return(t, pc.th[t].n)
    /\ UNCHANGED <<kseg, maps, last>>

NextRace ==
    \/ RaceCreate
    \/ \E t \in Threads : RaceBegin(t)
    \/ \E t \in Threads : RaceClamp(t)
    \/ \E t \in Threads : RaceCall(t)
    \/ \E t \in Threads : RaceLoad(t)
    \/ \E t \in Threads : RaceStore(t)

SpecRace == InitRace /\ [][NextRace]_vars

\* thread t is past its kernel call
Called(t) == pc.at = "run" /\ pc.th[t].at \in {"load", "store", "done"} /\ pc.th[t].n > 0

\* two Reads returned the same range of bytes
SameRangeTwice ==
    /\ \A t \in Threads : Called(t) /\ pc.th[t].kind = "Read" /\ pc.th[t].at = "done"
    /\ pc.th[1].koff = pc.th[2].koff
    /\ pc.th[1].n = pc.th[2].n

\* both calls returned and the cursor is not the starting cursor, 0, plus the
\* bytes they returned
CursorLostBytes ==
    /\ pc.at = "run"
    /\ \A t \in Threads : pc.th[t].at = "done"
    /\ \E h \in Handles : segs[h].offset # pc.th[1].n + pc.th[2].n

\* a kernel call went out with an offset that is not the cursor its length was
\* clamped against
StaleClamp == \E t \in Threads : Called(t) /\ pc.th[t].koff # pc.th[t].clampedAt

RaceStaleClampReached == ~pc.serial /\ StaleClamp

\* without the mutex: a kernel call ran past the end of the segment
RaceFaultReached == ~pc.serial /\ ~Running

\* with the mutex: both calls returned, each having moved bytes
RaceSerialBothDone == pc.serial /\ \A t \in Threads : Called(t) /\ pc.th[t].at = "done"

====
